---- MODULE Spec2Model ----
(***************************************************************************)
(* Model of homework.py: the polling loop of main() with the functions it  *)
(* calls (check_tokens, get_api_answer, check_response, parse_status,      *)
(* send_message).                                                          *)
(*                                                                         *)
(* Python values are modelled as follows.                                  *)
(*   - a dict is a TLA+ record; "k in d" is  k \in DOMAIN d;               *)
(*   - a decoded JSON value carries its Python type name, because the code *)
(*     tests isinstance(): [type |-> "dict", items |-> <record>],          *)
(*     [type |-> "list", items |-> <sequence>], [type |-> "str", ...];     *)
(*   - a text is a sequence of strings (the pieces str.format puts         *)
(*     together); None is the empty sequence;                              *)
(*   - an exception is [type |-> <class name>, args |-> <text>];           *)
(*   - a call that may raise yields [raised, value, exc].                  *)
(* The Cyrillic literals of the source are written by the name of the      *)
(* constant that holds them (the verdict texts by a transliteration).      *)
(***************************************************************************)
EXTENDS Integers, Sequences, FiniteSets, TLC

\* ------------------------------------------------------------------ bounds
\* current_date values carried by the modelled API responses: 0..MaxDate
MaxDate == 2
\* number of loop iterations explored
MaxCycles == 3
\* the startup clock reading, in seconds past MONTH_OFFSET
ClockOffset == 1
\* iterations with arbitrary outcomes before a failure becomes persistent
MaxPrelude == 1

\* --------------------------------------------------------------- constants
RETRY_PERIOD == 600
MONTH_OFFSET == 2678400
SERVICE_UNAVAILABLE_CODE == 503
OK_CODE == 200
TEXT_CUT == 200

None == <<>>
NoExc == [type |-> "", args |-> <<>>]

Return(v) == [raised |-> FALSE, value |-> v, exc |-> NoExc]
Raise(type, args) == [raised |-> TRUE, value |-> None, exc |-> [type |-> type, args |-> args]]

\* message templates: the constant's name and its replacement fields, in order
RESPONSE_NOT_DICT_ERROR == "RESPONSE_NOT_DICT_ERROR"
NO_HOMEWORKS_KEY_ERROR == "NO_HOMEWORKS_KEY_ERROR"
HOMEWORKS_NOT_LIST_ERROR == "HOMEWORKS_NOT_LIST_ERROR"
NO_HOMEWORK_NAME_ERROR == "NO_HOMEWORK_NAME_ERROR"
NO_STATUS_ERROR == "NO_STATUS_ERROR"
MISSING_TOKENS == [text |-> "MISSING_TOKENS", fields |-> <<"tokens">>]
API_REQUEST_ERROR == [text |-> "API_REQUEST_ERROR", fields |-> <<"error", "url", "headers", "params">>]
SERVICE_UNAVAILABLE == [text |-> "SERVICE_UNAVAILABLE", fields |-> <<"url", "headers", "params", "response_text">>]
INVALID_STATUS_CODE == [text |-> "INVALID_STATUS_CODE", fields |-> <<"code", "url", "headers", "params", "response_text">>]
API_RETURNED_ERROR == [text |-> "API_RETURNED_ERROR", fields |-> <<"details", "url", "headers">>]
STATUS_CHANGE == [text |-> "STATUS_CHANGE", fields |-> <<"name", "verdict">>]
INVALID_STATUS == [text |-> "INVALID_STATUS", fields |-> <<"status", "valid_statuses">>]
BOT_ERROR_MESSAGE == [text |-> "BOT_ERROR_MESSAGE", fields |-> <<"error">>]

ENDPOINT == "ENDPOINT"
HEADERS == [Authorization |-> "OAuth PRACTICUM_TOKEN"]

HOMEWORK_VERDICTS ==
    [approved |-> "Rabota proverena: revyueru vsyo ponravilos. Ura!",
     reviewing |-> "Rabota vzyata na proverku revyuerom.",
     rejected |-> "Rabota proverena: u revyuera est zamechaniya."]

\* str.format(**kwargs): every replacement field of the template is looked up
\* in kwargs, in order; the first one missing raises KeyError(field); keyword
\* arguments the template does not use are ignored.
Format(template, kwargs) ==
    LET fields == template.fields
        missing == {i \in 1..Len(fields) : fields[i] \notin DOMAIN kwargs}
    IN IF missing # {}
       THEN Raise("KeyError", <<fields[CHOOSE i \in missing : \A j \in missing : i <= j]>>)
       ELSE Return(<<template.text>> \o [i \in 1..Len(fields) |-> ToString(kwargs[fields[i]])])

\* str(e): the message; for a KeyError, the repr of its argument
str(exc) == IF exc.type = "KeyError" THEN <<"'">> \o exc.args \o <<"'">> ELSE exc.args

\* d.get(key, default)
Get(d, key, default) == IF key \in DOMAIN d THEN d[key] ELSE default

\* text[:n]
Prefix(text, n) == SubSeq(text, 1, IF Len(text) < n THEN Len(text) ELSE n)

\* ------------------------------------------------------------ check_tokens
REQUIRED_TOKENS == <<"PRACTICUM_TOKEN", "TELEGRAM_TOKEN", "TELEGRAM_CHAT_ID">>

\* the test of line 72 written as "globals().get(name) is None"
FalsyNoneOnly(v) == v = None

\* "not globals().get(name)": the variable is unset (None) or the empty string
Falsy(v) == v = None \/ v = <<"">>

check_tokens(globals) ==
    LET missing_tokens == SelectSeq(REQUIRED_TOKENS, LAMBDA name : Falsy(globals[name]))
    IN IF missing_tokens # <<>>
       THEN Raise("RuntimeError", Format(MISSING_TOKENS, [tokens |-> missing_tokens]).value)
       ELSE Return(None)

\* ------------------------------------------------------------ send_message
\* bot.send_message either delivers or raises; send_message catches nothing
send_message(message, delivered) ==
    IF delivered THEN Return(None) ELSE Raise("ApiException", <<"send failed">>)

\* line 184: TeleBot(TELEGRAM_TOKEN), the constructor of the messaging library:
\* it returns the client, or raises when it does not accept the token
TeleBot(token, accepted) ==
    IF accepted THEN Return(token) ELSE Raise("Exception", <<"TeleBot failed">>)

\* ---------------------------------------------------------- get_api_answer
\* line 92 with a fixed from_date instead of the watermark
RequestParamsFixed(ts) == [from_date |-> 0]

\* line 92: the query parameters of the request
RequestParams(ts) == [from_date |-> ts]

\* exchange is the outcome of requests.get: [raised |-> TRUE, error] when it
\* raised a RequestException, else [raised |-> FALSE, status_code, text, json]
\* get_api_answer looking for the error key only (line 126 without 'code')
get_api_answer_ErrorKeyOnly(ts, exchange) ==
    LET request_info == [url |-> ENDPOINT, headers |-> HEADERS,
                         params |-> RequestParams(ts)]
    IN IF exchange.raised
       THEN Raise("ConnectionError",
                  Format(API_REQUEST_ERROR, [error |-> exchange.error] @@ request_info).value)
       ELSE IF exchange.status_code = SERVICE_UNAVAILABLE_CODE
       THEN Raise("RetryError",
                  Format(SERVICE_UNAVAILABLE,
                         [response_text |-> Prefix(exchange.text, TEXT_CUT)] @@ request_info).value)
       ELSE IF exchange.status_code # OK_CODE
       THEN Raise("HTTPError",
                  Format(INVALID_STATUS_CODE,
                         [code |-> exchange.status_code,
                          response_text |-> Prefix(exchange.text, TEXT_CUT)] @@ request_info).value)
       ELSE IF ~exchange.json.valid
       THEN Raise("JSONDecodeError", exchange.json.error)
       ELSE LET api_data == exchange.json.data
            IN IF api_data.type = "dict" /\ "error" \in DOMAIN api_data.items
               THEN Raise("RuntimeError",
                          Format(API_RETURNED_ERROR,
                                 [details |-> [code |-> Get(api_data.items, "code", None),
                                               error |-> Get(api_data.items, "error", None),
                                               message |-> Get(api_data.items, "message", "No message"),
                                               request_params |-> request_info.params,
                                               response |-> api_data.items]] @@ request_info).value)
               ELSE Return(api_data)

get_api_answer(ts, exchange) ==
    LET request_info == [url |-> ENDPOINT, headers |-> HEADERS,
                         params |-> RequestParams(ts)]
    IN IF exchange.raised
       THEN LET m == Format(API_REQUEST_ERROR, [error |-> exchange.error] @@ request_info)
            IN IF m.raised THEN m ELSE Raise("ConnectionError", m.value)
       ELSE IF exchange.status_code = SERVICE_UNAVAILABLE_CODE
       THEN LET m == Format(SERVICE_UNAVAILABLE,
                            [response_text |-> Prefix(exchange.text, TEXT_CUT)] @@ request_info)
            IN IF m.raised THEN m ELSE Raise("RetryError", m.value)
       ELSE IF exchange.status_code # OK_CODE
       THEN LET m == Format(INVALID_STATUS_CODE,
                            [code |-> exchange.status_code,
                             response_text |-> Prefix(exchange.text, TEXT_CUT)] @@ request_info)
            IN IF m.raised THEN m ELSE Raise("HTTPError", m.value)
       ELSE IF ~exchange.json.valid
       THEN Raise("JSONDecodeError", exchange.json.error)
       ELSE LET api_data == exchange.json.data
            IN IF api_data.type = "dict"
                  /\ \E word \in {"code", "error"} : word \in DOMAIN api_data.items
               THEN LET m == Format(API_RETURNED_ERROR,
                                [details |-> [code |-> Get(api_data.items, "code", None),
                                              error |-> Get(api_data.items, "error", None),
                                              message |-> Get(api_data.items, "message", "No message"),
                                              request_params |-> request_info.params,
                                              response |-> api_data.items]] @@ request_info)
                    IN IF m.raised THEN m ELSE Raise("RuntimeError", m.value)
               ELSE Return(api_data)

\* ---------------------------------------------------------- check_response
\* check_response without the isinstance test of line 153
check_response_AnyHomeworks(response) ==
    IF response.type # "dict"
    THEN Raise("TypeError", <<RESPONSE_NOT_DICT_ERROR, ".", "type: ", response.type>>)
    ELSE IF "homeworks" \notin DOMAIN response.items
    THEN Raise("ValueError", <<NO_HOMEWORKS_KEY_ERROR>>)
    ELSE Return(response.items.homeworks.items)

check_response(response) ==
    IF response.type # "dict"
    THEN Raise("TypeError", <<RESPONSE_NOT_DICT_ERROR, ".", "type: ", response.type>>)
    ELSE IF "homeworks" \notin DOMAIN response.items
    THEN Raise("ValueError", <<NO_HOMEWORKS_KEY_ERROR>>)
    ELSE LET homeworks == response.items.homeworks
         IN IF homeworks.type # "list"
            THEN Raise("TypeError", <<HOMEWORKS_NOT_LIST_ERROR, ".", "type: ", homeworks.type>>)
            ELSE Return(homeworks.items)

\* ------------------------------------------------------------ parse_status
parse_status(homework) ==
    IF "homework_name" \notin DOMAIN homework
    THEN Raise("KeyError", <<NO_HOMEWORK_NAME_ERROR>>)
    ELSE IF "status" \notin DOMAIN homework
    THEN Raise("KeyError", <<NO_STATUS_ERROR>>)
    ELSE LET homework_status == homework.status
         IN IF homework_status \notin DOMAIN HOMEWORK_VERDICTS
            THEN LET m == Format(INVALID_STATUS, [status |-> homework_status])
                 IN IF m.raised THEN m ELSE Raise("ValueError", m.value)
            ELSE LET m == Format(STATUS_CHANGE,
                                 [name |-> homework.homework_name,
                                  verdict |-> HOMEWORK_VERDICTS[homework_status]])
                 IN IF m.raised THEN m ELSE Return(m.value)

\* -------------------------------------------------------------------- main
\* an outbound notification attempt (a call of bot.send_message)
Attempt(kind, text, delivered) == [kind |-> kind, text |-> text, delivered |-> delivered]

\* line 200 with the current_date ignored
NextTimestampKeep(response, ts) == ts

\* line 200 guarded so that the watermark never moves back
NextTimestampMax(response, ts) ==
    LET d == Get(response.items, "current_date", ts)
    IN IF d > ts THEN d ELSE ts

\* line 200: response.get('current_date', timestamp)
NextTimestamp(response, ts) == Get(response.items, "current_date", ts)

\* lines 195-198 without the inner try: a failed send leaves the try block
NotifyStatusUncaught(message, delivered) ==
    LET s == send_message(message, delivered)
    IN [sent |-> <<Attempt("status", message, ~s.raised)>>, raised |-> s.raised, exc |-> s.exc]

\* lines 195-198: the status notification, its failure caught and logged
NotifyStatus(message, delivered) ==
    LET s == send_message(message, delivered)
    IN [sent |-> <<Attempt("status", message, ~s.raised)>>, raised |-> FALSE, exc |-> NoExc]

\* the try block with line 200 moved up, before parse_status is called
TryBlockAdvanceEarly(ts, exchange, delivered) ==
    LET out == [raised |-> FALSE, exc |-> NoExc, timestamp |-> ts,
                requests |-> <<[params |-> RequestParams(ts), exchange |-> exchange]>>,
                parsed |-> <<>>, sent |-> <<>>]
        r == get_api_answer(ts, exchange)
    IN IF r.raised THEN [out EXCEPT !.raised = TRUE, !.exc = r.exc]
       ELSE LET response == r.value
                c == check_response(response)
            IN IF c.raised THEN [out EXCEPT !.raised = TRUE, !.exc = c.exc]
               ELSE LET homeworks == c.value
                        moved == [out EXCEPT !.timestamp = NextTimestamp(response, ts)]
                    IN IF Len(homeworks) > 0
                       THEN LET p == parse_status(homeworks[1])
                                called == [moved EXCEPT !.parsed = <<homeworks[1]>>]
                            IN IF p.raised
                               THEN [called EXCEPT !.raised = TRUE, !.exc = p.exc]
                               ELSE [called EXCEPT !.sent = NotifyStatus(p.value, delivered).sent]
                       ELSE moved

\* lines 189-200, the try block: what it leaves behind. requests, parsed and
\* sent list the API requests issued, the records handed to parse_status and
\* the notifications attempted; raised/exc is the exception that leaves it.
TryBlock(ts, exchange, delivered) ==
    LET out == [raised |-> FALSE, exc |-> NoExc, timestamp |-> ts,
                requests |-> <<[params |-> RequestParams(ts), exchange |-> exchange]>>,
                parsed |-> <<>>, sent |-> <<>>]
        r == get_api_answer(ts, exchange)
    IN IF r.raised THEN [out EXCEPT !.raised = TRUE, !.exc = r.exc]
       ELSE LET response == r.value
                c == check_response(response)
            IN IF c.raised THEN [out EXCEPT !.raised = TRUE, !.exc = c.exc]
               ELSE LET homeworks == c.value
                    IN IF Len(homeworks) > 0
                       THEN LET p == parse_status(homeworks[1])
                                called == [out EXCEPT !.parsed = <<homeworks[1]>>]
                            IN IF p.raised
                               THEN [called EXCEPT !.raised = TRUE, !.exc = p.exc]
                               ELSE LET n == NotifyStatus(p.value, delivered)
                                    IN IF n.raised
                                       THEN [called EXCEPT !.raised = TRUE, !.exc = n.exc,
                                                           !.sent = n.sent]
                                       ELSE [called EXCEPT !.sent = n.sent,
                                                !.timestamp = NextTimestamp(response, ts)]
                       ELSE [out EXCEPT !.timestamp = NextTimestamp(response, ts)]

\* line 203
ErrorMessage(exc) == Format(BOT_ERROR_MESSAGE, [error |-> str(exc)]).value

\* the except block with last_msg assigned before the send (line 209 moved up)
ExceptBlockRecordFirst(last_msg, e, delivered) ==
    LET error_message == ErrorMessage(e)
    IN IF last_msg # error_message
       THEN [sent |-> <<Attempt("error", error_message, delivered)>>,
             last_msg |-> error_message, raised |-> FALSE]
       ELSE [sent |-> <<>>, last_msg |-> last_msg, raised |-> FALSE]

\* the except block without the comparison of line 206
ExceptBlockNoDedup(last_msg, e, delivered) ==
    LET error_message == ErrorMessage(e)
    IN [sent |-> <<Attempt("error", error_message, delivered)>>,
        last_msg |-> IF delivered THEN error_message ELSE last_msg,
        raised |-> FALSE]

\* the except block without the inner try of lines 207-212
ExceptBlockUncaught(last_msg, e, delivered) ==
    LET error_message == ErrorMessage(e)
    IN IF last_msg # error_message
       THEN [sent |-> <<Attempt("error", error_message, delivered)>>,
             last_msg |-> IF delivered THEN error_message ELSE last_msg,
             raised |-> ~delivered]
       ELSE [sent |-> <<>>, last_msg |-> last_msg, raised |-> FALSE]

\* the except block forgetting last_msg when the send fails (line 211)
ExceptBlockClearOnFailure(last_msg, e, delivered) ==
    LET error_message == ErrorMessage(e)
    IN IF last_msg # error_message
       THEN [sent |-> <<Attempt("error", error_message, delivered)>>,
             last_msg |-> IF delivered THEN error_message ELSE None,
             raised |-> FALSE]
       ELSE [sent |-> <<>>, last_msg |-> last_msg, raised |-> FALSE]

\* lines 202-212, the except block: the error notification and last_msg
ExceptBlock(last_msg, e, delivered) ==
    LET error_message == ErrorMessage(e)
    IN IF last_msg # error_message
       THEN [sent |-> <<Attempt("error", error_message, delivered)>>,
             last_msg |-> IF delivered THEN error_message ELSE last_msg,
             raised |-> FALSE]
       ELSE [sent |-> <<>>, last_msg |-> last_msg, raised |-> FALSE]

\* the finally block placed at the end of the try block: skipped on an error
FinallyBlockAfterTry(failed) == IF failed THEN <<>> ELSE <<RETRY_PERIOD>>

\* lines 214-215, the finally block: the pauses it makes, whether or not the
\* iteration went through the except block
FinallyBlock(failed) == <<RETRY_PERIOD>>

\* ------------------------------------------------------------------ inputs
\* a status code that is neither 200 nor 503
OtherStatusCodes == {404}

TokenValues == {None, <<"">>, <<"secret">>}

Dates == 0..MaxDate
Names == {"lab1"}
Statuses == {"approved", "reviewing", "rejected", "unknown", "strange"}

Dict(items) == [type |-> "dict", items |-> items]
List(items) == [type |-> "list", items |-> items]

\* work-item records: each of the two keys present or absent
HomeworkRecords ==
    {n @@ s : n \in {<<>>} \cup {[homework_name |-> x] : x \in Names},
              s \in {<<>>} \cup {[status |-> x] : x \in Statuses}}

Later == [homework_name |-> "lab0", status |-> "rejected"]

\* homeworks sequences: empty, one record, or a first record and a later one
HomeworkLists ==
    {<<>>} \cup {<<hw>> : hw \in HomeworkRecords}
           \cup {<<hw, Later>> : hw \in {[homework_name |-> "lab1", status |-> x] :
                                           x \in {"approved", "unknown"}}}

HomeworksValues == {List(l) : l \in HomeworkLists} \cup {[type |-> "str", items |-> <<>>]}

\* payloads without an error indicator
PlainPayloads ==
    {Dict(h @@ d) : h \in {<<>>} \cup {[homeworks |-> v] : v \in HomeworksValues},
                    d \in {<<>>} \cup {[current_date |-> t] : t \in Dates}}

\* payloads carrying a code or an error key
ErrorPayloads ==
    {Dict(k @@ rest) :
        k \in {[code |-> "not_authenticated"], [error |-> "bad token"],
               [code |-> "UnknownError", error |-> "bad from_date", message |-> "oops"]},
        rest \in {<<>>, [homeworks |-> List(<<[homework_name |-> "lab1", status |-> "approved"]>>),
                         current_date |-> MaxDate]}}

Payloads == PlainPayloads \cup ErrorPayloads \cup {List(<<>>)}

HttpResponse(code, text, json) ==
    [raised |-> FALSE, status_code |-> code, text |-> text, json |-> json]

\* outcomes of requests.get
Exchanges ==
    {[raised |-> TRUE, error |-> <<"timed out">>]}
    \cup {HttpResponse(code, <<"d", "o", "w", "n">>, [valid |-> FALSE, error |-> <<"Expecting value">>]) :
            code \in {SERVICE_UNAVAILABLE_CODE} \cup OtherStatusCodes}
    \cup {HttpResponse(OK_CODE, <<"<">>, [valid |-> FALSE, error |-> <<"Expecting value">>])}
    \cup {HttpResponse(OK_CODE, <<"j">>, [valid |-> TRUE, data |-> d]) : d \in Payloads}

\* ------------------------------------------------------------------- state
VARIABLES
    globals,        \* the three module-level tokens
    pc,             \* "start", "aborted", "requesting", "handling_error", "sleeping", "crashed"
    timestamp,      \* main's timestamp (None before it is assigned)
    last_msg,       \* main's last_msg
    e,              \* the exception caught by "except Exception as e"
    cycle,          \* iterations of the loop begun
    requests,       \* this iteration: API requests issued
    parsed,         \* this iteration: records handed to parse_status
    sent,           \* this iteration: notification attempts
    error_message,  \* this iteration: the rendered error text (None if none)
    ts0,            \* timestamp when this iteration began
    lm0,            \* last_msg when this iteration began
    lastFail,       \* the most recent earlier iteration that failed
    sleeps          \* durations of the time.sleep calls since the last API request

vars == <<globals, pc, timestamp, last_msg, e, cycle, requests, parsed, sent,
          error_message, ts0, lm0, lastFail, sleeps>>

NoFail == [err |-> None, attempts |-> 0, delivered |-> FALSE, same |-> FALSE,
           cleared |-> FALSE, parsed |-> <<>>]

Init ==
    /\ globals \in [{REQUIRED_TOKENS[i] : i \in 1..Len(REQUIRED_TOKENS)} -> TokenValues]
    /\ pc = "start"
    /\ timestamp = None
    /\ last_msg = None
    /\ e = NoExc
    /\ cycle = 0
    /\ requests = <<>>
    /\ parsed = <<>>
    /\ sent = <<>>
    /\ error_message = None
    /\ ts0 = None
    /\ lm0 = None
    /\ lastFail = NoFail
    /\ sleeps = <<>>

\* lines 182-186: check_tokens(), the messaging client of line 184, then the
\* loop's variables; an exception of either call ends main() before the loop
Start ==
    /\ pc = "start"
    /\ \E accepted \in BOOLEAN :
         LET t == check_tokens(globals)
             bot == TeleBot(globals["TELEGRAM_TOKEN"], accepted)
         IN IF t.raised
            THEN /\ pc' = "aborted"
                 /\ e' = t.exc
                 /\ UNCHANGED <<timestamp, last_msg, ts0, lm0>>
            ELSE IF bot.raised
            THEN /\ pc' = "crashed"
                 /\ e' = bot.exc
                 /\ UNCHANGED <<timestamp, last_msg, ts0, lm0>>
            ELSE /\ pc' = "requesting"
                 /\ timestamp' = (MONTH_OFFSET + ClockOffset) - MONTH_OFFSET
                 /\ last_msg' = None
                 /\ ts0' = timestamp'
                 /\ lm0' = last_msg'
                 /\ e' = e
    /\ UNCHANGED <<globals, cycle, requests, parsed, sent, error_message, lastFail, sleeps>>

\* lines 189-200: one pass through the try block, on the given outcome of
\* requests.get and of the status delivery; count is the iteration's number
TryStep(exchange, delivered, count) ==
    /\ pc = "requesting"
    /\ LET t == TryBlock(timestamp, exchange, delivered)
       IN /\ timestamp' = t.timestamp
          /\ requests' = t.requests
          /\ parsed' = t.parsed
          /\ sent' = t.sent
          /\ e' = t.exc
          /\ pc' = IF t.raised THEN "handling_error" ELSE "sleeping"
    /\ cycle' = count
    /\ sleeps' = <<>>
    /\ UNCHANGED <<globals, last_msg, error_message, ts0, lm0, lastFail>>

Try ==
    /\ cycle < MaxCycles
    /\ \E exchange \in Exchanges, delivered \in BOOLEAN :
         TryStep(exchange, delivered, cycle + 1)

\* lines 202-212: the except block, on the given outcome of the delivery
ExceptStep(delivered) ==
    /\ pc = "handling_error"
    /\ LET x == ExceptBlock(last_msg, e, delivered)
       IN /\ last_msg' = x.last_msg
          /\ sent' = sent \o x.sent
          /\ pc' = IF x.raised THEN "crashed" ELSE "sleeping"
    /\ error_message' = ErrorMessage(e)
    /\ UNCHANGED <<globals, timestamp, e, cycle, requests, parsed, ts0, lm0, lastFail, sleeps>>

Except == \E delivered \in BOOLEAN : ExceptStep(delivered)

\* lines 214-215: time.sleep(RETRY_PERIOD), then the next iteration
Sleep ==
    /\ pc = "sleeping"
    /\ pc' = "requesting"
    /\ lastFail' = IF error_message # None
                   THEN [err |-> error_message,
                         attempts |-> Len(sent),
                         delivered |-> \E i \in 1..Len(sent) : sent[i].delivered,
                         same |-> lastFail.err = error_message /\ ~lastFail.cleared,
                         cleared |-> FALSE,
                         parsed |-> parsed]
                   ELSE IF lastFail.err # None THEN [lastFail EXCEPT !.cleared = TRUE]
                   ELSE lastFail
    /\ e' = NoExc
    /\ requests' = <<>>
    /\ parsed' = <<>>
    /\ sent' = <<>>
    /\ error_message' = None
    /\ ts0' = timestamp
    /\ lm0' = last_msg
    /\ sleeps' = sleeps \o FinallyBlock(error_message # None)
    /\ UNCHANGED <<globals, timestamp, last_msg, cycle>>

Next == Start \/ Try \/ Except \/ Sleep

Spec == Init /\ [][Next]_vars

\* ------------------------------------------------- a failure that persists
\* The first MaxPrelude iterations are arbitrary; from then on every request
\* fails, and with the same rendered error text as the iteration before.
\* The outcome of requests.get is named first, by the request list the try
\* block leaves, so that a step is matched to its outcome directly.
PreludeTry ==
    /\ pc = "requesting"
    /\ cycle < MaxPrelude
    /\ \E exchange \in Exchanges, delivered \in BOOLEAN :
         /\ requests' = <<[params |-> RequestParams(timestamp), exchange |-> exchange]>>
         /\ TryStep(exchange, delivered, cycle + 1)

\* the request times the loop can hold, and per request time the outcomes on
\* which the try block raises, indexed by the error text the handler renders
\* (tables, merged with the empty function so that they are built once)
Timestamps == Dates \cup {ClockOffset}

FailureText(ts, exchange) == ErrorMessage(TryBlock(ts, exchange, TRUE).exc)

FailingExchanges ==
    [ts \in Timestamps |-> {x \in Exchanges : TryBlock(ts, x, TRUE).raised}] @@ <<>>

FailingWith ==
    [ts \in Timestamps |->
        [text \in {FailureText(ts, x) : x \in FailingExchanges[ts]} |->
            {x \in FailingExchanges[ts] : FailureText(ts, x) = text}] @@ <<>>] @@ <<>>

\* the outcomes open to a failing iteration: any failure on the first one,
\* afterwards those that render the text of the iteration before
PersistentFailures ==
    IF cycle > MaxPrelude
    THEN IF ~lastFail.cleared /\ lastFail.err \in DOMAIN FailingWith[timestamp]
         THEN FailingWith[timestamp][lastFail.err]
         ELSE {}
    ELSE FailingExchanges[timestamp]

FailingTry ==
    /\ pc = "requesting"
    /\ cycle >= MaxPrelude
    /\ \E exchange \in PersistentFailures, delivered \in BOOLEAN :
         /\ requests' = <<[params |-> RequestParams(timestamp), exchange |-> exchange]>>
         /\ TryStep(exchange, delivered, MaxPrelude + 1)

PersistNext == Start \/ PreludeTry \/ FailingTry \/ Except \/ Sleep

\* Once the failure persists the loop keeps running (the next request is
\* made, the sleep ends), and the channel accepts one of any endless series
\* of sends.
PersistSpec ==
    /\ Init
    /\ [][PersistNext]_vars
    /\ WF_vars(FailingTry)
    /\ WF_vars(Sleep)
    /\ SF_vars(ExceptStep(TRUE))

\* ------------------------------------------------------- reading the state
InLoop == pc \in {"requesting", "handling_error", "sleeping"}

\* the iteration's try block (and except block, if entered) has run
CycleDone == pc = "sleeping"

\* the iteration went through the error handler
Failed == error_message # None

\* the iteration's request was answered 200 with a JSON mapping
GotMapping ==
    /\ Len(requests) = 1
    /\ ~requests[1].exchange.raised
    /\ requests[1].exchange.status_code = OK_CODE
    /\ requests[1].exchange.json.valid
    /\ requests[1].exchange.json.data.type = "dict"

Payload == requests[1].exchange.json.data.items

HasDate == "current_date" \in DOMAIN Payload

\* the iteration's response passed get_api_answer and check_response
Validated ==
    /\ GotMapping
    /\ "code" \notin DOMAIN Payload
    /\ "error" \notin DOMAIN Payload
    /\ "homeworks" \in DOMAIN Payload
    /\ Payload.homeworks.type = "list"

Homeworks == Payload.homeworks.items

ErrorAttempts == Len(SelectSeq(sent, LAMBDA a : a.kind = "error"))
StatusAttempts == Len(SelectSeq(sent, LAMBDA a : a.kind = "status"))

\* the iteration before this one failed, with this text
PrevFailedWith(text) == lastFail.err = text /\ ~lastFail.cleared

\* ------------------------------------------------------------------ claims

\* C1, as stated: two consecutive iterations that fail with the same error
\* text make exactly one error notification attempt between them, whatever
\* the delivery outcome; a third iteration failing with another text attempts
\* a notification.
C1_Original ==
    (CycleDone /\ Failed) =>
        /\ PrevFailedWith(error_message) => lastFail.attempts + ErrorAttempts = 1
        /\ (lastFail.same /\ ~lastFail.cleared /\ lastFail.err # error_message)
               => ErrorAttempts = 1

\* C1, amended: of two consecutive iterations failing with the same text E,
\* the second attempts a notification exactly when the first attempted one
\* and its delivery failed (none when the first was delivered, none when E
\* had been delivered before the first); a third iteration failing with
\* another text attempts a notification exactly when that text differs from
\* the last delivered one, so always when E had been delivered.
C1_Dedup ==
    (CycleDone /\ Failed) =>
        /\ PrevFailedWith(error_message) =>
               ErrorAttempts = (IF lastFail.attempts = 1 /\ ~lastFail.delivered THEN 1 ELSE 0)
        /\ (lastFail.same /\ ~lastFail.cleared /\ lastFail.err # error_message) =>
               /\ ErrorAttempts = (IF error_message # lm0 THEN 1 ELSE 0)
               /\ lm0 = lastFail.err => ErrorAttempts = 1

\* two iterations failed with E, E was delivered, and the third fails with
\* another text and is notified
C1_Witness ==
    /\ CycleDone /\ Failed
    /\ lastFail.same /\ ~lastFail.cleared /\ lastFail.err # error_message
    /\ lm0 = lastFail.err
    /\ ErrorAttempts = 1

\* C2: after an iteration that did not enter the error handler and whose
\* homeworks sequence was not empty, timestamp is the response's current_date
\* when the key is present and its value before the iteration when absent.
C2_Advance ==
    (CycleDone /\ ~Failed /\ Validated /\ Len(Homeworks) > 0) =>
        timestamp = (IF HasDate THEN Payload.current_date ELSE ts0)

C2_Witness ==
    /\ CycleDone /\ ~Failed /\ Validated /\ Len(Homeworks) > 0
    /\ HasDate /\ Payload.current_date # ts0
    /\ timestamp = Payload.current_date

\* C3, as stated: an iteration whose validated homeworks sequence is empty
\* sends nothing and leaves timestamp unchanged, whatever its current_date.
C3_Original ==
    (CycleDone /\ Validated /\ Len(Homeworks) = 0) =>
        /\ sent = <<>>
        /\ ~Failed
        /\ timestamp = ts0

\* C3, amended: an iteration whose validated homeworks sequence is empty
\* sends nothing and parses nothing, does not enter the error handler, and
\* sets timestamp to the response's current_date when the key is present,
\* leaving it unchanged only when the key is absent.
C3_Empty ==
    (CycleDone /\ Validated /\ Len(Homeworks) = 0) =>
        /\ sent = <<>>
        /\ parsed = <<>>
        /\ ~Failed
        /\ timestamp = (IF HasDate THEN Payload.current_date ELSE ts0)

C3_Witness ==
    /\ CycleDone /\ Validated /\ Len(Homeworks) = 0
    /\ HasDate /\ Payload.current_date < ts0
    /\ timestamp = Payload.current_date
    /\ sent = <<>>

\* C4: once the loop is entered nothing leaves it: the try block ends in the
\* error handler or in the sleep, the error handler ends in the sleep even
\* when its own notification fails, and the sleep is followed by the next
\* request.
C4_NoExit ==
    [][InLoop =>
         /\ InLoop'
         /\ pc = "requesting" => pc' \in {"handling_error", "sleeping"}
         /\ pc = "handling_error" => pc' = "sleeping"
         /\ pc = "sleeping" => pc' = "requesting"]_vars

\* the loop is at its next request after an iteration whose error
\* notification could not be delivered
C4_Witness ==
    /\ pc = "requesting"
    /\ cycle >= 1
    /\ lastFail.err # None /\ ~lastFail.cleared
    /\ lastFail.attempts = 1 /\ ~lastFail.delivered

\* C5, as stated: timestamp never decreases.
C5_Monotonic == [][InLoop => timestamp' >= timestamp]_vars

\* C6: an iteration that ends in the error handler leaves timestamp as it was
\* when the iteration began.
C6_ErrorKeepsTimestamp ==
    (pc = "handling_error" \/ (CycleDone /\ Failed)) => timestamp = ts0

\* a record was parsed and rejected in an iteration whose response carried a
\* current_date other than the watermark
C6_Witness ==
    /\ CycleDone /\ Failed
    /\ Validated /\ parsed # <<>>
    /\ HasDate /\ Payload.current_date # ts0
    /\ timestamp = ts0

\* C7: when a status notification was attempted, delivered or not, the
\* iteration does not enter the error handler, makes no error notification,
\* leaves last_msg alone and sets timestamp to current_date when present.
C7_SendFailureAdvances ==
    /\ pc = "handling_error" => StatusAttempts = 0
    /\ (CycleDone /\ StatusAttempts > 0) =>
           /\ ~Failed
           /\ ErrorAttempts = 0
           /\ last_msg = lm0
           /\ HasDate => timestamp = Payload.current_date

C7_Witness ==
    /\ CycleDone /\ StatusAttempts = 1
    /\ ~sent[1].delivered
    /\ HasDate /\ Payload.current_date # ts0
    /\ timestamp = Payload.current_date

\* C8, as stated: when an iteration failed with text E and E was delivered,
\* some iterations then completed without error, and an iteration fails with
\* E again, E is notified again.
C8_Renotify ==
    (CycleDone /\ Failed /\ lastFail.err = error_message
               /\ lastFail.delivered /\ lastFail.cleared)
        => ErrorAttempts = 1

\* C9, as stated: in the error handler, a text other than last_msg is
\* attempted once and becomes last_msg whether or not it was delivered; a
\* text equal to last_msg is not sent and last_msg stays.
C9_Original ==
    (CycleDone /\ Failed) =>
        IF error_message # lm0
        THEN ErrorAttempts = 1 /\ last_msg = error_message
        ELSE ErrorAttempts = 0 /\ last_msg = lm0

\* C9, amended: a text other than last_msg is attempted once and becomes
\* last_msg only when the delivery succeeded (last_msg is unchanged when it
\* failed); a text equal to last_msg is not sent and last_msg stays.
C9_Handler ==
    (CycleDone /\ Failed) =>
        IF error_message # lm0
        THEN /\ ErrorAttempts = 1 /\ Len(sent) = 1
             /\ sent[1].text = error_message
             /\ last_msg = (IF sent[1].delivered THEN error_message ELSE lm0)
        ELSE ErrorAttempts = 0 /\ last_msg = lm0

\* a new error text whose delivery failed: last_msg keeps its old value
C9_Witness ==
    /\ CycleDone /\ Failed
    /\ error_message # lm0
    /\ ErrorAttempts = 1 /\ ~sent[1].delivered
    /\ last_msg = lm0

\* C10, as stated: for a record with both keys, a status of the verdict
\* table yields the sentence with the record's name and the mapped verdict;
\* any other status fails with ValueError and yields no message.
C10_ParseStatus ==
    (pc \in {"handling_error", "sleeping"} /\ parsed # <<>>
        /\ {"homework_name", "status"} \subseteq DOMAIN parsed[1]) =>
        IF parsed[1].status \in DOMAIN HOMEWORK_VERDICTS
        THEN /\ e = NoExc
             /\ StatusAttempts = 1
             /\ sent[1].text = <<STATUS_CHANGE.text, ToString(parsed[1].homework_name),
                                 ToString(HOMEWORK_VERDICTS[parsed[1].status])>>
        ELSE /\ e.type = "ValueError"
             /\ StatusAttempts = 0

\* the iteration's request was answered 200 with decodable JSON that carries
\* no code or error key, so get_api_answer returned it
Decoded ==
    /\ Len(requests) = 1
    /\ ~requests[1].exchange.raised
    /\ requests[1].exchange.status_code = OK_CODE
    /\ requests[1].exchange.json.valid
    /\ (requests[1].exchange.json.data.type = "dict" =>
            /\ "code" \notin DOMAIN requests[1].exchange.json.data.items
            /\ "error" \notin DOMAIN requests[1].exchange.json.data.items)

ApiData == requests[1].exchange.json.data

\* C11: a payload that is not a mapping, a mapping without homeworks, and a
\* mapping whose homeworks is not a sequence each fail in check_response, with
\* three different failures (TypeError "not a dict", ValueError "no homeworks
\* key", TypeError "homeworks not a list"); in such an iteration parse_status
\* is not called and no status notification is sent.
C11_Schema ==
    (pc \in {"handling_error", "sleeping"} /\ Decoded) =>
        /\ ApiData.type # "dict" =>
               /\ e.type = "TypeError" /\ e.args[1] = RESPONSE_NOT_DICT_ERROR
               /\ parsed = <<>> /\ StatusAttempts = 0
        /\ (ApiData.type = "dict" /\ "homeworks" \notin DOMAIN ApiData.items) =>
               /\ e.type = "ValueError" /\ e.args[1] = NO_HOMEWORKS_KEY_ERROR
               /\ parsed = <<>> /\ StatusAttempts = 0
        /\ (ApiData.type = "dict" /\ "homeworks" \in DOMAIN ApiData.items
                /\ ApiData.items.homeworks.type # "list") =>
               /\ e.type = "TypeError" /\ e.args[1] = HOMEWORKS_NOT_LIST_ERROR
               /\ parsed = <<>> /\ StatusAttempts = 0
        /\ Cardinality({RESPONSE_NOT_DICT_ERROR, NO_HOMEWORKS_KEY_ERROR,
                        HOMEWORKS_NOT_LIST_ERROR}) = 3

\* the homeworks value is not a list: the error handler ran, nothing parsed
C11_Witness ==
    /\ CycleDone /\ Failed /\ Decoded
    /\ ApiData.type = "dict" /\ "homeworks" \in DOMAIN ApiData.items
    /\ ApiData.items.homeworks.type # "list"
    /\ e.type = "TypeError"
    /\ parsed = <<>> /\ sent # <<>> /\ sent[1].kind = "error"

\* C12: a 200 response whose decoded mapping has a code or an error key makes
\* get_api_answer fail with the RuntimeError built from API_RETURNED_ERROR,
\* also when the mapping holds a valid homeworks list and a current_date: the
\* iteration goes through the error handler, parses nothing, sends no status
\* notification and leaves timestamp as it was.
C12_BusinessError ==
    (pc \in {"handling_error", "sleeping"} /\ GotMapping
        /\ ("code" \in DOMAIN Payload \/ "error" \in DOMAIN Payload)) =>
        /\ e.type = "RuntimeError"
        /\ e.args[1] = API_RETURNED_ERROR.text
        /\ parsed = <<>>
        /\ StatusAttempts = 0
        /\ timestamp = ts0
        /\ CycleDone => (Failed /\ error_message = ErrorMessage(e))

\* a code key next to a valid homeworks list and a current_date that would
\* have moved the watermark
C12_Witness ==
    /\ CycleDone /\ Failed /\ GotMapping
    /\ "code" \in DOMAIN Payload /\ "error" \notin DOMAIN Payload
    /\ "homeworks" \in DOMAIN Payload /\ Payload.homeworks.type = "list"
    /\ Len(Payload.homeworks.items) > 0
    /\ HasDate /\ Payload.current_date # ts0
    /\ timestamp = ts0
    /\ e.type = "RuntimeError"

\* one of the three tokens is unset or empty
TokenMissing ==
    \E i \in 1..Len(REQUIRED_TOKENS) : globals[REQUIRED_TOKENS[i]] \in {None, <<"">>}

\* the exception of line 184 has left main() before the loop
ClientRejected == pc = "crashed" /\ cycle = 0 /\ timestamp = None

\* C13 as stated: when one of the three tokens is unset or empty, main() ends
\* with the RuntimeError of check_tokens before the loop (no iteration, no
\* request, no notification, no sleep); when all three are present the loop is
\* entered and main() is never in that ended state.
C13_Original ==
    /\ (pc # "start" /\ TokenMissing) => pc = "aborted"
    /\ (pc # "start" /\ ~TokenMissing) => InLoop
    /\ pc = "aborted" =>
           /\ TokenMissing
           /\ e.type = "RuntimeError" /\ e.args[1] = MISSING_TOKENS.text
           /\ cycle = 0
           /\ requests = <<>> /\ sent = <<>> /\ sleeps = <<>>
           /\ timestamp = None /\ last_msg = None

\* C13, amended: when one of the three tokens is unset or empty, main() ends
\* with the RuntimeError of check_tokens before the loop (no iteration, no
\* request, no notification, no sleep). When all three are present that
\* failure never occurs, and the loop is entered once TeleBot(TELEGRAM_TOKEN)
\* has returned; when the constructor raises, main() ends with its exception
\* before the loop, again with no request, notification or sleep.
C13_Config ==
    /\ (pc # "start" /\ TokenMissing) => pc = "aborted"
    /\ (pc # "start" /\ ~TokenMissing) => (InLoop \/ ClientRejected)
    /\ pc = "aborted" =>
           /\ TokenMissing
           /\ e.type = "RuntimeError" /\ e.args[1] = MISSING_TOKENS.text
           /\ cycle = 0
           /\ requests = <<>> /\ sent = <<>> /\ sleeps = <<>>
           /\ timestamp = None /\ last_msg = None
    /\ ClientRejected =>
           /\ ~TokenMissing
           /\ e = TeleBot(globals["TELEGRAM_TOKEN"], FALSE).exc
           /\ requests = <<>> /\ sent = <<>> /\ sleeps = <<>>
           /\ last_msg = None

\* every token is set, one of them to the empty string
C13_Witness ==
    /\ pc = "aborted"
    /\ globals["PRACTICUM_TOKEN"] = <<"secret">>
    /\ globals["TELEGRAM_TOKEN"] = <<"secret">>
    /\ globals["TELEGRAM_CHAT_ID"] = <<"">>
    /\ e.type = "RuntimeError"

\* C14: every iteration ends with exactly one sleep of RETRY_PERIOD, after a
\* success, after an empty homeworks list and after the error handler (also
\* when the error notification was not delivered); no sleep happens inside
\* the try or except block, and every request after the first is preceded by
\* exactly one completed sleep since the request before it.
C14_OneSleep ==
    /\ pc \in {"handling_error", "sleeping"} => sleeps = <<>>
    /\ (pc = "requesting" /\ cycle = 0) => sleeps = <<>>
    /\ (pc = "requesting" /\ cycle >= 1) => sleeps = <<RETRY_PERIOD>>

\* the sleep after an iteration whose error notification was not delivered
C14_Witness ==
    /\ pc = "requesting"
    /\ sleeps = <<RETRY_PERIOD>>
    /\ lastFail.err # None /\ ~lastFail.cleared
    /\ lastFail.attempts = 1 /\ ~lastFail.delivered
    /\ last_msg # lastFail.err

\* parse_status was called on a record with both keys and a status outside
\* the verdict table
UnknownStatus(records) ==
    /\ records # <<>>
    /\ {"homework_name", "status"} \subseteq DOMAIN records[1]
    /\ records[1].status \notin DOMAIN HOMEWORK_VERDICTS

\* the previous iteration and this one both failed on an unknown status, and
\* the two statuses differ
TwoUnknownStatuses ==
    /\ CycleDone /\ Failed /\ UnknownStatus(parsed)
    /\ lastFail.err # None /\ ~lastFail.cleared /\ UnknownStatus(lastFail.parsed)
    /\ lastFail.parsed[1].status # parsed[1].status

\* C15, as stated: on a status outside the verdict table parse_status fails
\* with the ValueError of INVALID_STATUS, whose text holds the offending
\* status and the recognized statuses; so two consecutive iterations failing
\* on different unknown statuses render different error texts and each
\* attempts a notification.
C15_UnknownStatusDetail ==
    /\ (pc \in {"handling_error", "sleeping"} /\ UnknownStatus(parsed)) =>
           /\ e.type = "ValueError"
           /\ Len(e.args) = 3
           /\ e.args[1] = INVALID_STATUS.text
           /\ e.args[2] = ToString(parsed[1].status)
    /\ TwoUnknownStatuses =>
           /\ error_message # lastFail.err
           /\ ErrorAttempts = 1

\* C15, its consequence alone: two consecutive iterations failing on
\* different unknown statuses render different texts and are each notified.
C15_EachNotified ==
    TwoUnknownStatuses => (error_message # lastFail.err /\ ErrorAttempts = 1)

\* C16: last_msg changes only in the except block, only to the rendered
\* error text and only when that text differs from its current value; the
\* try block (a clean iteration, an empty homeworks list, an undelivered
\* status notification) and the sleep leave it alone; once set it is never
\* None again.
C16_LastMsgFrame ==
    [][/\ last_msg' # last_msg =>
              /\ pc = "handling_error"
              /\ ErrorMessage(e) # last_msg
              /\ last_msg' = ErrorMessage(e)
       /\ last_msg # None => last_msg' # None
       /\ (pc' = "sleeping" /\ error_message' = None) => last_msg' = lm0']_vars

\* last_msg went from one error text to another in this iteration
C16_Witness ==
    /\ CycleDone /\ Failed
    /\ lm0 # None
    /\ last_msg # lm0
    /\ last_msg = error_message

\* C17: an iteration makes at most one notification attempt: one status
\* notification, for element 0 of the homeworks list and for no later
\* element, or one error notification, never both; parse_status is called
\* at most once, on element 0.
C17_AtMostOne ==
    InLoop =>
        /\ Len(sent) <= 1
        /\ Len(parsed) <= 1
        /\ parsed # <<>> => (Validated /\ parsed[1] = Homeworks[1])
        /\ StatusAttempts = 1 =>
               /\ ErrorAttempts = 0
               /\ parsed # <<>>
               /\ sent[1].text = <<STATUS_CHANGE.text, ToString(parsed[1].homework_name),
                                   ToString(HOMEWORK_VERDICTS[parsed[1].status])>>

\* two records in the list: the first is notified, the later one is not
C17_Witness ==
    /\ CycleDone /\ Validated
    /\ Len(Homeworks) = 2
    /\ Len(sent) = 1 /\ sent[1].kind = "status"
    /\ parsed = <<Homeworks[1]>>
    /\ Homeworks[2] # Homeworks[1]

\* C19: each pass through the try block issues exactly one API request,
\* whether it succeeds or fails, with from_date equal to timestamp as it is
\* when the iteration begins (the startup value in the first iteration, then
\* whatever the previous iteration left); the except block issues none.
C19_OneRequest ==
    [][/\ pc = "requesting" =>
              /\ Len(requests') = 1
              /\ requests'[1].params = [from_date |-> timestamp]
              /\ cycle = 0 => timestamp = ClockOffset
       /\ pc = "handling_error" => requests' = requests]_vars

\* a failed request issued with a watermark that an earlier response moved
C19_Witness ==
    /\ CycleDone /\ Failed
    /\ cycle >= 2
    /\ Len(requests) = 1
    /\ requests[1].exchange.raised
    /\ requests[1].params.from_date # ClockOffset
    /\ requests[1].params.from_date = timestamp

\* the loop is in the phase where every iteration fails with the same text
Persisting == cycle > MaxPrelude

\* C18: when every iteration from some point on fails with the same text E,
\* E differs from last_msg, and the channel accepts one of any endless series
\* of sends, an error notification with text E is eventually delivered; an
\* undelivered attempt leaves last_msg unchanged and the next failing
\* iteration attempts again; once E is delivered no iteration attempts E as
\* long as E persists.
C18_EventualDelivery ==
    /\ []((CycleDone /\ Failed /\ ErrorAttempts = 1 /\ ~sent[1].delivered) => last_msg = lm0)
    /\ []((CycleDone /\ Failed /\ PrevFailedWith(error_message)) =>
              ErrorAttempts = (IF lastFail.attempts = 1 /\ ~lastFail.delivered THEN 1 ELSE 0))
    /\ []((CycleDone /\ Failed /\ Persisting /\ last_msg = error_message /\ lm0 = error_message)
              => ErrorAttempts = 0)
    /\ (Persisting /\ pc = "handling_error" /\ ErrorMessage(e) # last_msg)
           ~> (Persisting /\ CycleDone /\ ErrorAttempts = 1 /\ sent[1].delivered
                          /\ sent[1].text = error_message /\ last_msg = error_message)

\* E persists, its first attempt was not delivered, the next one is
C18_Witness ==
    /\ Persisting /\ CycleDone /\ Failed
    /\ PrevFailedWith(error_message)
    /\ lastFail.attempts = 1 /\ ~lastFail.delivered
    /\ ErrorAttempts = 1 /\ sent[1].delivered
    /\ last_msg = error_message

====
